---- MODULE Spec2Model ----
(***************************************************************************)
(* State-machine model of src/server.js (Beelee backend): the credential   *)
(* table `users`, the session table `sessions`, their snapshot files, the  *)
(* bearer-token gate and the route handlers.                               *)
(*                                                                         *)
(* JavaScript values are tagged records [t, v]; JavaScript objects are     *)
(* records keyed by property name (the empty object is <<>>).  A property  *)
(* that is missing reads as Undef, exactly as in JavaScript.               *)
(***************************************************************************)
EXTENDS Integers, Sequences, FiniteSets, TLC

\* ------------------------------------------------------------------------
\* Bounds of the model (not program constants)
\* ------------------------------------------------------------------------
\* number of tokens the clients hold (logins that succeed in one run)
MaxIssued == 2
\* number of file writes that fail in one run
MaxFaults == 1
\* length up to which the clients grow one recipe list
MaxRecipes == 3
\* number of process restarts in one run
MaxRestarts == 1
\* last instant of the clock that is observed
MaxClock == 8

\* ------------------------------------------------------------------------
\* Program constants
\* ------------------------------------------------------------------------
\* server.js:132  expiresIn: '7d' (the clock counts days)
TokenTTL == 7
\* server.js:15
JWT_SECRET == "your-super-secret-key-change-this-in-production"
\* server.js:37 bcrypt.hashSync(.., 10)
BcryptRounds == 10

\* ------------------------------------------------------------------------
\* JavaScript values
\* ------------------------------------------------------------------------
Undef == [t |-> "undefined"]
Str(s) == [t |-> "string", v |-> s]
Arr(l) == [t |-> "array", v |-> l]
Num(n) == [t |-> "number", v |-> n]

\* JavaScript truthiness of the values that occur here
Truthy(x) == x # Undef /\ x # Str("") /\ x # Num(0)

\* property read o[k]: a missing property is undefined
Get(o, k) == IF k \in DOMAIN o THEN o[k] ELSE Undef

\* the lower-case property names every object inherits from Object.prototype
InheritedNames == {"constructor", "__proto__"}

\* what such a property holds: a truthy value without passwordHash
Inherited == [t |-> "inherited"]

\* users[key] at server.js:116 and 220: an own property, else an inherited
\* one, else undefined
UsersLookup(us, key) ==
  IF key \in DOMAIN us THEN us[key]
  ELSE IF key \in InheritedNames THEN Inherited
  ELSE Undef

\* String.prototype.toLowerCase on the names that occur as inputs
ToLowerCase(s) ==
  CASE s = "Admin" -> "admin"
    [] s = "ADMIN" -> "admin"
    [] s = "Bob" -> "bob"
    [] s = "BOB" -> "bob"
    [] s = "Thomas" -> "thomas"
    [] OTHER -> s

\* ------------------------------------------------------------------------
\* bcryptjs.  The random salt is left out: compareSync depends on the hash
\* only through the key that was hashed, and the key schedule of bcrypt
\* reads the first 72 bytes of the password only.
\* ------------------------------------------------------------------------
\* 72 bytes, and two passwords of 73 bytes that begin with them
Bytes72 == "aaaaaaaaaaaaaaaaaaaaaaaaaaaaaaaaaaaaaaaaaaaaaaaaaaaaaaaaaaaaaaaaaaaaaaaa"
LongA == "aaaaaaaaaaaaaaaaaaaaaaaaaaaaaaaaaaaaaaaaaaaaaaaaaaaaaaaaaaaaaaaaaaaaaaaaA"
LongB == "aaaaaaaaaaaaaaaaaaaaaaaaaaaaaaaaaaaaaaaaaaaaaaaaaaaaaaaaaaaaaaaaaaaaaaaaB"

\* the part of the password the key schedule reads
First72Bytes(password) ==
  CASE password = LongA -> Bytes72
    [] password = LongB -> Bytes72
    [] OTHER -> password

\* hashSync and compareSync throw "Illegal arguments" unless both arguments
\* are strings
IllegalArguments(s, hash) == s.t # "string" \/ hash = Undef

HashSync(password, rounds) ==
  [alg |-> "bcrypt", rounds |-> rounds, of |-> First72Bytes(password)]

CompareSync(password, hash) ==
  hash.alg = "bcrypt" /\ hash.of = First72Bytes(password)

\* ------------------------------------------------------------------------
\* jsonwebtoken.  A token is its payload plus the key that signed it.
\* ------------------------------------------------------------------------
\* jwt.sign whose tokens expire a day early
JwtSignOneDayShort(payload, secret, expiresIn, t) ==
  [userId |-> payload.userId, username |-> payload.username,
   iat |-> t, exp |-> t + expiresIn - 1, sig |-> secret]

JwtSign(payload, secret, expiresIn, t) ==
  [userId |-> payload.userId, username |-> payload.username,
   iat |-> t, exp |-> t + expiresIn, sig |-> secret]

\* a header piece: a literal word, one space, or a token
Lit(s) == [k |-> "lit", s |-> s]
Sp == [k |-> "sp"]
Jwt(tok) == [k |-> "jwt", tok |-> tok]

\* jwt.verify that does not look at exp
JwtVerifyNoExpiry(word, secret, t) ==
  IF /\ Len(word) = 1
     /\ word[1].k = "jwt"
     /\ word[1].tok.sig = secret
  THEN [err |-> FALSE,
        user |-> [userId |-> word[1].tok.userId, username |-> word[1].tok.username,
                  iat |-> word[1].tok.iat, exp |-> word[1].tok.exp]]
  ELSE [err |-> TRUE, user |-> Undef]

\* jwt.verify that still accepts a token at the instant it expires
JwtVerifyExpiresLate(word, secret, t) ==
  IF /\ Len(word) = 1
     /\ word[1].k = "jwt"
     /\ word[1].tok.sig = secret
     /\ t <= word[1].tok.exp
  THEN [err |-> FALSE,
        user |-> [userId |-> word[1].tok.userId, username |-> word[1].tok.username,
                  iat |-> word[1].tok.iat, exp |-> word[1].tok.exp]]
  ELSE [err |-> TRUE, user |-> Undef]

\* jwt.verify(token, secret, cb): err unless the text is one well-formed
\* token, signed with the secret, and the clock is before exp
JwtVerify(word, secret, t) ==
  IF /\ Len(word) = 1
     /\ word[1].k = "jwt"
     /\ word[1].tok.sig = secret
     /\ t < word[1].tok.exp
  THEN [err |-> FALSE,
        user |-> [userId |-> word[1].tok.userId, username |-> word[1].tok.username,
                  iat |-> word[1].tok.iat, exp |-> word[1].tok.exp]]
  ELSE [err |-> TRUE, user |-> Undef]

\* ------------------------------------------------------------------------
\* Header text: a string is a sequence of pieces
\* ------------------------------------------------------------------------
Hdr(pieces) == [t |-> "text", v |-> pieces]

RECURSIVE FirstSp(_, _)
FirstSp(p, i) ==
  IF i > Len(p) THEN 0
  ELSE IF p[i] = Sp THEN i ELSE FirstSp(p, i + 1)

\* String.prototype.split(' ')
RECURSIVE Split(_)
Split(p) ==
  LET i == FirstSp(p, 1) IN
  IF i = 0 THEN << p >>
  ELSE << SubSeq(p, 1, i - 1) >> \o Split(SubSeq(p, i + 1, Len(p)))

\* authHeader && authHeader.split(' ')[1]; every falsy result (undefined,
\* the empty string) is the empty word
BearerWord(authHeader) ==
  IF authHeader = Undef THEN << >>
  ELSE LET w == Split(authHeader.v) IN
       IF Len(w) >= 2 THEN w[2] ELSE << >>

authenticateToken(authHeader, t) ==
  LET token == BearerWord(authHeader) IN
  IF token = << >>
  THEN [status |-> 401, error |-> "Access denied. No token provided.", user |-> Undef]
  ELSE LET r == JwtVerify(token, JWT_SECRET, t) IN
       IF r.err
       THEN [status |-> 403, error |-> "Invalid or expired token", user |-> Undef]
       ELSE [status |-> 0, error |-> "", user |-> r.user]

\* ------------------------------------------------------------------------
\* JSON and the files
\* ------------------------------------------------------------------------
\* JSON.stringify of an object leaves out the properties that are undefined
DropUndefined(o) == [k \in {x \in DOMAIN o : o[x] # Undef} |-> o[k]]

\* the text JSON.stringify(sessions) denotes, as a JSON document
StringifySessions(s) == [u \in DOMAIN s |-> DropUndefined(s[u])]

\* users hold strings only, which JSON represents as they are
StringifyUsers(us) == [u \in DOMAIN us |-> us[u]]

Json(doc) == [t |-> "json", v |-> doc]
Corrupt == [t |-> "corrupt"]

\* JSON.parse(fs.readFileSync(file))
JsonParse(file) == file.v

\* outcomes of fs.writeFileSync: written; failed before the file was touched;
\* failed after the file was truncated
IoOutcomes == {"ok", "fail", "torn"}

WriteFileSync(old, doc, io) ==
  CASE io = "ok" -> [file |-> Json(doc), threw |-> FALSE]
    [] io = "fail" -> [file |-> old, threw |-> TRUE]
    [] OTHER -> [file |-> Corrupt, threw |-> TRUE]

\* ------------------------------------------------------------------------
\* State
\* ------------------------------------------------------------------------
VARIABLES
  users,         \* server.js:29  username -> {id, passwordHash, name}
  sessions,      \* server.js:60  user id -> {recipes, basket}
  usersFile,     \* users.json
  sessionsFile,  \* sessions.json
  now,           \* the wall clock, in days
  issued,        \* the tokens the server has signed (held by the clients)
  conn,          \* per connection: idle, a request being received, or answered
  loaded,        \* history: the keys of sessions when the process loaded it
  touched,       \* history: ids that entered a recipe or basket handler since
  faults,        \* history: number of failed file writes
  restarts,      \* history: number of restarts
  good,          \* history: each table as the last store operation that
                 \* returned success left it, and the password each user
                 \* record was made with
  clients        \* what the clients of this run do (fixed at the start)

vars == << users, sessions, usersFile, sessionsFile, now, issued, conn,
           loaded, touched, faults, restarts, good, clients >>

\* server.js:34-55
SeedUsers ==
  [u \in {"admin", "thomas", "maria", "family"} |->
     CASE u = "admin" ->
            [id |-> "admin", passwordHash |-> HashSync("beelee2024", BcryptRounds),
             name |-> "Admin User"]
       [] u = "thomas" ->
            [id |-> "thomas", passwordHash |-> HashSync("shopping123", BcryptRounds),
             name |-> "Thomas"]
       [] u = "maria" ->
            [id |-> "maria", passwordHash |-> HashSync("maria2024", BcryptRounds),
             name |-> "Maria"]
       [] OTHER ->
            [id |-> "family", passwordHash |-> HashSync("family2024", BcryptRounds),
             name |-> "Family Account"]]

\* server.js:37-52: the passwords of the seed
SeedPasswords ==
  [u \in {"admin", "thomas", "maria", "family"} |->
     CASE u = "admin" -> "beelee2024"
       [] u = "thomas" -> "shopping123"
       [] u = "maria" -> "maria2024"
       [] OTHER -> "family2024"]

\* the connections of the clients
Conns == {1, 2}

\* What the clients of one run do.  "gate": every kind of Authorization
\* header while time passes.  "accounts": logins and user creation, with
\* failing writes and a restart.  "crash": recipes and basket of one user,
\* with failing writes and a restart.  "cooks": recipes of two users.
\* "shoppers": baskets of two users.  "race": two requests in flight.
\* "odd": credentials that are not what a login form sends (a number, a
\* name of Object.prototype, passwords longer than 72 bytes).
Profiles == {"gate", "accounts", "crash", "cooks", "shoppers", "race", "odd"}
Idle == [st |-> "idle"]

\* First run: neither file exists, so the seed and the empty session table
\* are written (a failed write here ends the process before it serves).
Init ==
  /\ clients \in Profiles
  /\ users = SeedUsers
  /\ usersFile = Json(StringifyUsers(SeedUsers))
  /\ sessions = << >>
  /\ sessionsFile = Json(StringifySessions(<< >>))
  /\ now = 0
  /\ issued = {}
  /\ conn = [c \in Conns |-> Idle]
  /\ loaded = {}
  /\ touched = {}
  /\ faults = 0
  /\ restarts = 0
  /\ good = [users |-> SeedUsers, sessions |-> << >>, passwords |-> SeedPasswords]

\* ------------------------------------------------------------------------
\* Helpers of the handlers
\* ------------------------------------------------------------------------
\* obj[k] = val, adding the property when it is missing
SetProp(o, k, val) == [x \in DOMAIN o \cup {k} |-> IF x = k THEN val ELSE o[x]]

\* the response written on connection c; `ran` tells whether the route
\* handler behind the gate was entered, `user` is req.user, `with` the
\* connections whose request was in flight when this one was handled
Answer(c, req, status, body, user, ran) ==
  conn' = [conn EXCEPT ![c] =
             [st |-> "done", req |-> req, status |-> status, body |-> body,
              user |-> user, ran |-> ran,
              with |-> {d \in Conns \ {c} : conn[d].st = "pending"}]]

\* express' default error handler, reached when a handler throws
ServerError == [error |-> "Internal Server Error"]

\* server.js:68-70
saveUsers(us, file, io) == WriteFileSync(file, StringifyUsers(us), io)

\* server.js:72-74
saveSessions(s, file, io) == WriteFileSync(file, StringifySessions(s), io)

\* getUserSession that empties every record when it creates one
getUserSessionResetsOthers(s, file, userId, io) ==
  IF userId \notin DOMAIN s
  THEN LET s2 == [u \in DOMAIN s \cup {userId} |->
                    [recipes |-> Arr(<< >>), basket |-> Arr(<< >>)]]
           w == saveSessions(s2, file, io)
       IN [sessions |-> s2, file |-> w.file, threw |-> w.threw, wrote |-> TRUE]
  ELSE [sessions |-> s, file |-> file, threw |-> FALSE, wrote |-> FALSE]

\* getUserSession that starts a new table when it creates a record
getUserSessionDropsOthers(s, file, userId, io) ==
  IF userId \notin DOMAIN s
  THEN LET s2 == [u \in {userId} |-> [recipes |-> Arr(<< >>), basket |-> Arr(<< >>)]]
           w == saveSessions(s2, file, io)
       IN [sessions |-> s2, file |-> w.file, threw |-> w.threw, wrote |-> TRUE]
  ELSE [sessions |-> s, file |-> file, threw |-> FALSE, wrote |-> FALSE]

\* getUserSession that creates the record without writing the snapshot
getUserSessionNoSave(s, file, userId, io) ==
  IF userId \notin DOMAIN s
  THEN LET s2 == [u \in DOMAIN s \cup {userId} |->
                    IF u = userId
                    THEN [recipes |-> Arr(<< >>), basket |-> Arr(<< >>)]
                    ELSE s[u]]
       IN [sessions |-> s2, file |-> file, threw |-> FALSE, wrote |-> TRUE]
  ELSE [sessions |-> s, file |-> file, threw |-> FALSE, wrote |-> FALSE]

\* server.js:76-85; io is the outcome of the write, when there is one
getUserSession(s, file, userId, io) ==
  IF userId \notin DOMAIN s
  THEN LET s2 == [u \in DOMAIN s \cup {userId} |->
                    IF u = userId
                    THEN [recipes |-> Arr(<< >>), basket |-> Arr(<< >>)]
                    ELSE s[u]]
           w == saveSessions(s2, file, io)
       IN [sessions |-> s2, file |-> w.file, threw |-> w.threw, wrote |-> TRUE]
  ELSE [sessions |-> s, file |-> file, threw |-> FALSE, wrote |-> FALSE]

\* Array.prototype.findIndex(r => r.id === id), 0 standing for -1
RECURSIVE FindIndexFrom(_, _, _)
FindIndexFrom(list, id, i) ==
  IF i > Len(list) THEN 0
  ELSE IF Get(list[i], "id") = id THEN i ELSE FindIndexFrom(list, id, i + 1)

\* upsert that stores the recipe as the whole list
UpsertReplacesList(list, recipe) == << recipe >>

\* upsert that takes a match at the first place for no match
UpsertSkipsFirst(list, recipe) ==
  LET existingIndex == FindIndexFrom(list, Get(recipe, "id"), 1) IN
  IF existingIndex > 1
  THEN [list EXCEPT ![existingIndex] = recipe]
  ELSE Append(list, recipe)

\* upsert that never looks for the id
UpsertAlwaysAppends(list, recipe) == Append(list, recipe)

\* server.js:169-174
UpsertInto(list, recipe) ==
  LET existingIndex == FindIndexFrom(list, Get(recipe, "id"), 1) IN
  IF existingIndex > 0
  THEN [list EXCEPT ![existingIndex] = recipe]
  ELSE Append(list, recipe)

KeepOther(r, id) == Get(r, "id") # id

\* filter with the test turned round: keeps the entries it should remove
FilterOutKeepsMatching(list, id) == SelectSeq(list, LAMBDA r : ~KeepOther(r, id))

\* server.js:183  filter(r => r.id !== req.params.id)
FilterOut(list, id) == SelectSeq(list, LAMBDA r : KeepOther(r, id))

\* what a route behind the gate leaves alone
SessionFrame ==
  UNCHANGED << users, usersFile, now, issued, loaded, restarts, clients >>

\* a request the gate turns away: nothing but the response happens
Reject(c, req, a) ==
  /\ Answer(c, req, a.status, [error |-> a.error], Undef, FALSE)
  /\ UNCHANGED << users, sessions, usersFile, sessionsFile, now, issued,
                  loaded, touched, faults, restarts, clients >>

\* a basket update that adds the items sent to the items held
ReplaceBasketMerges(session, body) ==
  LET held == Get(session, "basket")
      sent == Get(body, "basket")
  IN IF held # Undef /\ sent # Undef /\ held.t = "array" /\ sent.t = "array"
     THEN SetProp(session, "basket", Arr(held.v \o sent.v))
     ELSE SetProp(session, "basket", sent)

\* server.js:197  session.basket = req.body.basket
ReplaceBasket(session, body) == SetProp(session, "basket", Get(body, "basket"))

\* server.js:205  session.basket = []
ClearBasket(session) == SetProp(session, "basket", Arr(<< >>))

\* the change a recipe or basket route makes to the caller's session
\* (server.js:166-174, 183, 197, 205); the two GET routes make none
SessionChange(req, session) ==
  CASE req.op = "postRecipes" ->
         SetProp(session, "recipes",
                 Arr(UpsertInto(Get(session, "recipes").v, req.body)))
    [] req.op = "deleteRecipe" ->
         SetProp(session, "recipes",
                 Arr(FilterOut(Get(session, "recipes").v, req.param)))
    [] req.op = "postBasket" -> ReplaceBasket(session, req.body)
    [] req.op = "deleteBasket" -> ClearBasket(session)
    [] OTHER -> session

\* the body a recipe or basket route answers with (server.js:160, 177, 185,
\* 191, 199, 207)
SessionBody(req, session) ==
  CASE req.op = "getRecipes" -> Get(session, "recipes")
    [] req.op = "getBasket" -> Get(session, "basket")
    [] req.op = "postRecipes" -> [success |-> TRUE, recipe |-> req.body]
    [] OTHER -> [success |-> TRUE]

\* The common course of the six recipe and basket routes: the gate, then
\* getUserSession, then the route's change of the session, the final
\* saveSessions for a write, and the response.  io1 is the outcome of the
\* write in getUserSession, io2 of the final one; an outcome that is not
\* consumed is "ok".
SessionRoute(c, req, io1, io2, writes) ==
  LET a == authenticateToken(req.header, now) IN
  IF a.status # 0 THEN io1 = "ok" /\ io2 = "ok" /\ Reject(c, req, a)
  ELSE
    LET userId == a.user.userId
        g == getUserSession(sessions, sessionsFile, userId, io1)
    IN
    /\ SessionFrame
    /\ touched' = touched \cup {userId}
    /\ g.wrote \/ io1 = "ok"
    /\ IF g.threw
       THEN /\ io2 = "ok"
            /\ sessions' = g.sessions
            /\ sessionsFile' = g.file
            /\ faults' = faults + 1
            /\ Answer(c, req, 500, ServerError, a.user, TRUE)
       ELSE IF ~writes
       THEN /\ io2 = "ok"
            /\ sessions' = g.sessions
            /\ sessionsFile' = g.file
            /\ faults' = faults
            /\ Answer(c, req, 200, SessionBody(req, g.sessions[userId]), a.user, TRUE)
       ELSE LET s2 == [g.sessions EXCEPT ![userId] = SessionChange(req, @)]
                w == saveSessions(s2, g.file, io2)
            IN
            /\ sessions' = s2
            /\ sessionsFile' = w.file
            /\ faults' = faults + (IF w.threw THEN 1 ELSE 0)
            /\ IF w.threw
               THEN Answer(c, req, 500, ServerError, a.user, TRUE)
               ELSE Answer(c, req, 200, SessionBody(req, s2[userId]), a.user, TRUE)

\* ------------------------------------------------------------------------
\* Routes
\* ------------------------------------------------------------------------
\* server.js:109-142.  A username that is no string has no toLowerCase,
\* and compareSync throws unless it is given two strings: the handler
\* throws and express answers 500.
LoginRoute(c, req) ==
  LET username == Get(req.body, "username")
      password == Get(req.body, "password")
  IN
  /\ UNCHANGED << users, sessions, usersFile, sessionsFile, now,
                  loaded, touched, faults, restarts, clients >>
  /\ IF ~Truthy(username) \/ ~Truthy(password)
     THEN /\ Answer(c, req, 400, [error |-> "Username and password required"], Undef, TRUE)
          /\ UNCHANGED issued
     ELSE IF username.t # "string"
     THEN /\ Answer(c, req, 500, ServerError, Undef, TRUE)
          /\ UNCHANGED issued
     ELSE LET user == UsersLookup(users, ToLowerCase(username.v)) IN
          IF user = Undef
          THEN /\ Answer(c, req, 401, [error |-> "Invalid credentials"], Undef, TRUE)
               /\ UNCHANGED issued
          ELSE IF IllegalArguments(password, Get(user, "passwordHash"))
          THEN /\ Answer(c, req, 500, ServerError, Undef, TRUE)
               /\ UNCHANGED issued
          ELSE IF ~CompareSync(password.v, user.passwordHash)
          THEN /\ Answer(c, req, 401, [error |-> "Invalid credentials"], Undef, TRUE)
               /\ UNCHANGED issued
          ELSE LET token == JwtSign([userId |-> user.id, username |-> user.id],
                                    JWT_SECRET, TokenTTL, now)
               IN
               /\ issued' = issued \cup {token}
               /\ Answer(c, req, 200,
                         [token |-> token, user |-> [id |-> user.id, name |-> user.name]],
                         Undef, TRUE)

\* server.js:145-153; users[..] of an id without record is undefined and
\* user.id throws
VerifyRoute(c, req) ==
  LET a == authenticateToken(req.header, now) IN
  IF a.status # 0 THEN Reject(c, req, a)
  ELSE
    /\ UNCHANGED << users, sessions, usersFile, sessionsFile, now, issued,
                    loaded, touched, faults, restarts, clients >>
    /\ IF a.user.userId \notin DOMAIN users
       THEN Answer(c, req, 500, ServerError, a.user, TRUE)
       ELSE LET user == users[a.user.userId] IN
            Answer(c, req, 200, [user |-> [id |-> user.id, name |-> user.name]],
                   a.user, TRUE)

\* server.js:158-161
GetRecipesRoute(c, req, io1) == SessionRoute(c, req, io1, "ok", FALSE)

\* server.js:164-178
PostRecipesRoute(c, req, io1, io2) == SessionRoute(c, req, io1, io2, TRUE)

\* server.js:181-186
DeleteRecipeRoute(c, req, io1, io2) == SessionRoute(c, req, io1, io2, TRUE)

\* server.js:189-192
GetBasketRoute(c, req, io1) == SessionRoute(c, req, io1, "ok", FALSE)

\* server.js:195-200
PostBasketRoute(c, req, io1, io2) == SessionRoute(c, req, io1, io2, TRUE)

\* server.js:203-208
DeleteBasketRoute(c, req, io1, io2) == SessionRoute(c, req, io1, io2, TRUE)

\* server.js:213-232.  hashSync throws on a password that is no string,
\* before the record is assigned.
CreateUserRoute(c, req, io) ==
  LET username == Get(req.body, "username")
      password == Get(req.body, "password")
      name == Get(req.body, "name")
  IN
  /\ UNCHANGED << sessions, sessionsFile, now, issued, loaded, touched, restarts, clients >>
  /\ IF ~Truthy(username) \/ ~Truthy(password)
     THEN /\ io = "ok"
          /\ Answer(c, req, 400, [error |-> "Username and password required"], Undef, TRUE)
          /\ UNCHANGED << users, usersFile, faults >>
     ELSE IF username.t # "string"
     THEN /\ io = "ok"
          /\ Answer(c, req, 500, ServerError, Undef, TRUE)
          /\ UNCHANGED << users, usersFile, faults >>
     ELSE IF UsersLookup(users, ToLowerCase(username.v)) # Undef
     THEN /\ io = "ok"
          /\ Answer(c, req, 400, [error |-> "User already exists"], Undef, TRUE)
          /\ UNCHANGED << users, usersFile, faults >>
     ELSE IF IllegalArguments(password, Str("salt"))
     THEN /\ io = "ok"
          /\ Answer(c, req, 500, ServerError, Undef, TRUE)
          /\ UNCHANGED << users, usersFile, faults >>
     ELSE LET id == ToLowerCase(username.v)
              us2 == [u \in DOMAIN users \cup {id} |->
                        IF u = id
                        THEN [id |-> id,
                              passwordHash |-> HashSync(password.v, BcryptRounds),
                              name |-> IF Truthy(name) THEN name.v ELSE username.v]
                        ELSE users[u]]
              w == saveUsers(us2, usersFile, io)
          IN
          /\ users' = us2
          /\ usersFile' = w.file
          /\ faults' = faults + (IF w.threw THEN 1 ELSE 0)
          /\ IF w.threw
             THEN Answer(c, req, 500, ServerError, Undef, TRUE)
             ELSE Answer(c, req, 200, [success |-> TRUE, userId |-> id], Undef, TRUE)

\* server.js:236-242
HealthRoute(c, req) ==
  /\ Answer(c, req, 200,
            [status |-> "ok", users |-> Cardinality(DOMAIN users),
             sessions |-> Cardinality(DOMAIN sessions)], Undef, TRUE)
  /\ UNCHANGED << users, sessions, usersFile, sessionsFile, now, issued,
                  loaded, touched, faults, restarts, clients >>

\* ------------------------------------------------------------------------
\* The requests the clients send
\* ------------------------------------------------------------------------
Request(op, header, body, param) ==
  [op |-> op, header |-> header, body |-> body, param |-> param]

\* a token signed by somebody who does not know the secret
ForgedToken ==
  [userId |-> "admin", username |-> "admin", iat |-> 0,
   exp |-> MaxClock + TokenTTL, sig |-> "not-the-secret"]

Bearer(tok) == Hdr(<< Lit("Bearer"), Sp, Jwt(tok) >>)
Basic(tok) == Hdr(<< Lit("Basic"), Sp, Jwt(tok) >>)

\* headers that carry a token the server signed, in the documented form
TokenHeaders == {Bearer(tok) : tok \in issued}

\* no header, a scheme without token, a token without scheme, a forged
\* token, a token under another scheme
OtherHeaders ==
  {Undef, Hdr(<< Lit("Bearer") >>), Bearer(ForgedToken)}
    \cup {Hdr(<< Jwt(tok) >>) : tok \in issued}
    \cup {Basic(tok) : tok \in issued}

Headers == IF clients = "gate" THEN TokenHeaders \cup OtherHeaders ELSE TokenHeaders

NoBody == << >>

Recipe(id, name) == [id |-> Str(id), name |-> Str(name)]

RecipeInputs ==
  CASE clients = "cooks" ->
         {Recipe("r1", "Soup"), Recipe("r1", "Stew"), Recipe("r2", "Soup"),
          [name |-> Str("Soup")]}
    [] clients \in {"crash", "race"} -> {Recipe("r1", "Soup"), Recipe("r2", "Soup")}
    [] clients \in {"gate", "shoppers"} -> {Recipe("r1", "Soup")}
    [] OTHER -> {}

RecipeIds ==
  CASE clients = "cooks" -> {Str("r1"), Str("r2")}
    [] clients \in {"shoppers", "crash", "race", "gate"} -> {Str("r1")}
    [] OTHER -> {}

Item(s) == [name |-> Str(s)]

BasketInputs ==
  CASE clients = "shoppers" ->
         {[basket |-> Arr(<< Item("milk"), Item("eggs") >>)],
          [basket |-> Arr(<< Item("tea") >>)],
          [basket |-> Arr(<< >>)],
          [basket |-> Str("milk")],
          NoBody}
    [] clients = "crash" -> {[basket |-> Arr(<< Item("tea") >>)], NoBody}
    [] clients = "gate" -> {[basket |-> Arr(<< Item("tea") >>)]}
    [] OTHER -> {}

Credentials(u, p) == DropUndefined([username |-> u, password |-> p])

LoginInputs ==
  CASE clients = "accounts" ->
         {Credentials(u, p) :
            u \in {Str("Admin"), Str("BOB"), Str("nobody"), Undef},
            p \in {Str("beelee2024"), Str("pw1"), Undef}}
    [] clients \in {"cooks", "shoppers"} ->
         {Credentials(Str("Admin"), Str("beelee2024")),
          Credentials(Str("Thomas"), Str("shopping123"))}
    [] clients = "odd" ->
         {Credentials(Str("BOB"), Str(LongA)),
          Credentials(Str("BOB"), Str(LongB)),
          Credentials(Str("BOB"), Str("pw1")),
          Credentials(Str("Admin"), Num(12345)),
          Credentials(Str("nobody"), Num(12345)),
          Credentials(Str("nobody"), Str("pw1")),
          Credentials(Str("constructor"), Str("pw1")),
          Credentials(Num(7), Str("pw1"))}
    [] OTHER -> {Credentials(Str("Admin"), Str("beelee2024"))}

CreateUserInputs ==
  CASE clients = "accounts" ->
         {DropUndefined([username |-> u, password |-> p, name |-> n]) :
            u \in {Str("Bob"), Str("ADMIN"), Undef},
            p \in {Str("pw1"), Undef},
            n \in {Str("Bobby"), Undef}}
    [] clients = "odd" ->
         {[username |-> Str("Bob"), password |-> Str(LongA)],
          [username |-> Str("Bob"), password |-> Num(12345)],
          [username |-> Str("constructor"), password |-> Str("pw1")],
          [username |-> Num(7), password |-> Str("pw1")]}
    [] OTHER -> {}

SessionClients == {"gate", "crash", "cooks", "shoppers", "race"}

Requests ==
  {Request("login", Undef, b, Undef) : b \in LoginInputs}
    \cup {Request("createUser", Undef, b, Undef) : b \in CreateUserInputs}
    \cup {Request("verify", h, NoBody, Undef) :
            h \in IF clients \in {"gate", "accounts"} THEN Headers ELSE {}}
    \cup {Request("health", Undef, NoBody, Undef) :
            x \in IF clients \in {"accounts", "crash"} THEN {1} ELSE {}}
    \cup {Request("getRecipes", h, NoBody, Undef) :
            h \in IF clients \in SessionClients \ {"race"} THEN Headers ELSE {}}
    \cup {Request("postRecipes", h, b, Undef) : h \in Headers, b \in RecipeInputs}
    \cup {Request("deleteRecipe", h, NoBody, p) : h \in Headers, p \in RecipeIds}
    \cup {Request("getBasket", h, NoBody, Undef) :
            h \in IF clients \in {"gate", "crash", "shoppers"} THEN Headers ELSE {}}
    \cup {Request("postBasket", h, b, Undef) : h \in Headers, b \in BasketInputs}
    \cup {Request("deleteBasket", h, NoBody, Undef) :
            h \in IF clients \in {"gate", "crash", "shoppers"} THEN Headers ELSE {}}

\* the outcomes of a write: writes fail in the runs that are about failure
Io == IF clients \in {"accounts", "crash"} THEN IoOutcomes ELSE {"ok"}

\* ------------------------------------------------------------------------
\* Actions.  express.json() reads the body of a request asynchronously, so
\* requests can be in flight together; from the gate to the response a
\* handler of server.js is synchronous, so one action is one whole handler.
\* ------------------------------------------------------------------------
AllIdle == \A c \in Conns : conn[c].st = "idle"

\* a request arrives; only the "race" clients send a second one before the
\* first is answered
Arrive ==
  \E c \in Conns, req \in Requests :
    /\ conn[c].st = "idle"
    /\ clients = "race" \/ (AllIdle /\ c = 1)
    /\ conn' = [d \in Conns |->
                 IF d = c THEN [st |-> "pending", req |-> req]
                 ELSE IF conn[d].st = "done"
                 THEN [conn[d] EXCEPT !.with = @ \ {c}]
                 ELSE conn[d]]
    /\ UNCHANGED << users, sessions, usersFile, sessionsFile, now, issued,
                    loaded, touched, faults, restarts, good, clients >>

Pending(c, op) == conn[c].st = "pending" /\ conn[c].req.op = op

SessionWrites == {"postRecipes", "deleteRecipe", "postBasket", "deleteBasket"}
SessionReads == {"getRecipes", "getBasket"}
SessionOps == SessionWrites \cup SessionReads
ProtectedOps == SessionOps \cup {"verify"}

\* history: the tables as the last store operation that returned success
\* left them.  A user creation, a recipe or basket change returns success
\* when its request is answered 200; the lazy creation of a session record
\* returns success when the write in getUserSession (outcome io1) does,
\* whatever becomes of the request afterwards.
Remember(c, io1) ==
  LET ok == conn'[c].status = 200
      op == conn'[c].req.op
      made == DOMAIN users' \ DOMAIN users
      created == /\ op \in SessionOps
                 /\ conn'[c].ran
                 /\ conn'[c].user.userId \notin DOMAIN sessions
                 /\ io1 = "ok"
  IN good' = [users |-> IF ok /\ op = "createUser" THEN users' ELSE good.users,
              sessions |-> IF ok /\ (op \in SessionWrites \/ created)
                           THEN sessions'
                           ELSE IF created
                           THEN getUserSession(sessions, sessionsFile,
                                               conn'[c].user.userId, io1).sessions
                           ELSE good.sessions,
              passwords |-> [u \in DOMAIN good.passwords \cup made |->
                               IF u \in made THEN conn'[c].req.body.password.v
                               ELSE good.passwords[u]]]

\* the clients keep to the bounds
Bounded ==
  /\ Cardinality(issued') <= MaxIssued
  /\ faults' <= MaxFaults
  /\ \A u \in DOMAIN sessions' : Len(Get(sessions'[u], "recipes").v) <= MaxRecipes

Login == \E c \in Conns : Pending(c, "login") /\ LoginRoute(c, conn[c].req) /\ Bounded /\ Remember(c, "ok")

Verify == \E c \in Conns : Pending(c, "verify") /\ VerifyRoute(c, conn[c].req) /\ Remember(c, "ok")

GetRecipes ==
  \E c \in Conns, io1 \in Io :
    Pending(c, "getRecipes") /\ GetRecipesRoute(c, conn[c].req, io1) /\ Bounded /\ Remember(c, io1)

PostRecipes ==
  \E c \in Conns, io1, io2 \in Io :
    Pending(c, "postRecipes") /\ PostRecipesRoute(c, conn[c].req, io1, io2) /\ Bounded /\ Remember(c, io1)

DeleteRecipe ==
  \E c \in Conns, io1, io2 \in Io :
    Pending(c, "deleteRecipe") /\ DeleteRecipeRoute(c, conn[c].req, io1, io2) /\ Bounded /\ Remember(c, io1)

GetBasket ==
  \E c \in Conns, io1 \in Io :
    Pending(c, "getBasket") /\ GetBasketRoute(c, conn[c].req, io1) /\ Bounded /\ Remember(c, io1)

PostBasket ==
  \E c \in Conns, io1, io2 \in Io :
    Pending(c, "postBasket") /\ PostBasketRoute(c, conn[c].req, io1, io2) /\ Bounded /\ Remember(c, io1)

DeleteBasket ==
  \E c \in Conns, io1, io2 \in Io :
    Pending(c, "deleteBasket") /\ DeleteBasketRoute(c, conn[c].req, io1, io2) /\ Bounded /\ Remember(c, io1)

CreateUser ==
  \E c \in Conns, io \in Io :
    Pending(c, "createUser") /\ CreateUserRoute(c, conn[c].req, io) /\ Bounded /\ Remember(c, "ok")

Health == \E c \in Conns : Pending(c, "health") /\ HealthRoute(c, conn[c].req) /\ Remember(c, "ok")

\* the client has read the response
Close ==
  \E c \in Conns :
    /\ conn[c].st = "done"
    /\ conn' = [conn EXCEPT ![c] = Idle]
    /\ UNCHANGED << users, sessions, usersFile, sessionsFile, now, issued,
                    loaded, touched, faults, restarts, good, clients >>

\* Time passes between requests.  The clock is looked at on the day before
\* a token expires, on the day it expires and on the day after.
Tick ==
  \E tok \in issued, d \in {-1, 0, 1} :
    /\ clients = "gate"
    /\ AllIdle
    /\ tok.exp + d > now
    /\ tok.exp + d <= MaxClock
    /\ now' = tok.exp + d
    /\ UNCHANGED << users, sessions, usersFile, sessionsFile, issued, conn,
                    loaded, touched, faults, restarts, good, clients >>

\* The process ends and starts again: server.js:28-66 with both files
\* present.  JSON.parse of a torn file throws and the process does not start.
Restart ==
  /\ clients \in {"accounts", "crash"}
  /\ AllIdle
  /\ restarts < MaxRestarts
  /\ usersFile # Corrupt
  /\ sessionsFile # Corrupt
  /\ users' = JsonParse(usersFile)
  /\ sessions' = JsonParse(sessionsFile)
  /\ loaded' = DOMAIN JsonParse(sessionsFile)
  /\ touched' = {}
  /\ restarts' = restarts + 1
  /\ UNCHANGED << usersFile, sessionsFile, now, issued, conn, faults, good, clients >>

Next ==
  \/ Arrive
  \/ Login
  \/ Verify
  \/ GetRecipes
  \/ PostRecipes
  \/ DeleteRecipe
  \/ GetBasket
  \/ PostBasket
  \/ DeleteBasket
  \/ CreateUser
  \/ Health
  \/ Close
  \/ Tick
  \/ Restart

Spec == Init /\ [][Next]_vars

\* ------------------------------------------------------------------------
\* Vocabulary of the properties
\* ------------------------------------------------------------------------
Done(c) == conn[c].st = "done"

\* this step is the handling of the request on connection c
Handled(c) == conn[c].st = "pending" /\ conn'[c].st = "done"

\* the tokens a header text contains
TokensIn(h) ==
  IF h = Undef THEN {}
  ELSE {h.v[i].tok : i \in {j \in 1..Len(h.v) : h.v[j].k = "jwt"}}

\* a token is Valid: the signature verifies and it has not expired
ValidAt(tok, t) == tok.sig = JWT_SECRET /\ t < tok.exp

\* the recipe list of user u
RecipesIn(s, u) == Get(s[u], "recipes").v

IdsOf(list) == {Get(list[i], "id") : i \in 1..Len(list)}

\* ------------------------------------------------------------------------
\* C1.  A protected handler runs only for a request that carries a Valid
\* token, and then with the identity decoded from that token; a request the
\* gate turns away changes neither table nor its file.
\* ------------------------------------------------------------------------
C1_OnlyValidTokensPass ==
  [][\A c \in Conns :
       (Handled(c) /\ conn'[c].req.op \in ProtectedOps) =>
         IF conn'[c].ran
         THEN \E tok \in TokensIn(conn'[c].req.header) :
                /\ ValidAt(tok, now)
                /\ conn'[c].user.userId = tok.userId
                /\ conn'[c].user.username = tok.username
         ELSE << users, sessions, usersFile, sessionsFile >>'
                = << users, sessions, usersFile, sessionsFile >>]_vars

\* a token that let its owner in before is turned away once it has expired
C1_Witness ==
  \E c \in Conns :
    /\ Done(c)
    /\ conn[c].req.op \in SessionOps
    /\ ~conn[c].ran
    /\ conn[c].status = 403
    /\ \E tok \in issued : conn[c].req.header = Bearer(tok) /\ now >= tok.exp
    /\ "admin" \in touched

\* ------------------------------------------------------------------------
\* C2.  No recipe list holds two entries with the same id.
\* ------------------------------------------------------------------------
C2_UniqueRecipeIds ==
  \A u \in DOMAIN sessions :
    \A i, j \in 1..Len(RecipesIn(sessions, u)) :
      i # j => Get(RecipesIn(sessions, u)[i], "id") # Get(RecipesIn(sessions, u)[j], "id")

\* a recipe was saved under an id that was already first of two entries
C2_Witness ==
  \E c \in Conns :
    /\ Done(c)
    /\ conn[c].req.op = "postRecipes"
    /\ conn[c].status = 200
    /\ LET list == RecipesIn(sessions, conn[c].user.userId) IN
       /\ Len(list) >= 2
       /\ list[1] = conn[c].req.body
       /\ "id" \in DOMAIN conn[c].req.body

\* ------------------------------------------------------------------------
\* C3.  A session record exists exactly for the ids that were in the table
\* when it was loaded or that entered a recipe or basket handler with a
\* Valid token since; login, verify, user creation and health create none,
\* and no request removes one.
\* ------------------------------------------------------------------------
C3_SessionExistence ==
  /\ [](DOMAIN sessions = loaded \cup touched)
  /\ [][\A c \in Conns :
          Handled(c) =>
            /\ DOMAIN sessions \subseteq DOMAIN sessions'
            /\ conn'[c].req.op \in {"login", "verify", "createUser", "health"}
                 => DOMAIN sessions' = DOMAIN sessions
            /\ DOMAIN sessions' # DOMAIN sessions
                 => /\ conn'[c].req.op \in SessionOps
                    /\ \E tok \in TokensIn(conn'[c].req.header) :
                         /\ ValidAt(tok, now)
                         /\ DOMAIN sessions' = DOMAIN sessions \cup {tok.userId}]_vars

\* after a restart the table holds a record from the file, and its owner
\* has come back
C3_Witness ==
  /\ restarts = 1
  /\ loaded # {}
  /\ touched # {}
  /\ \E c \in Conns : Done(c) /\ conn[c].req.op = "health" /\ conn[c].body.sessions = 1

\* ------------------------------------------------------------------------
\* C4.  Two requests that change the same user's recipes and are in flight
\* together.  c was handled while d was in flight, d after it; both were
\* answered 200 and saved recipes under different ids.
\* ------------------------------------------------------------------------
ConcurrentPair(c, d) ==
  /\ c # d
  /\ Done(c) /\ Done(d)
  /\ d \in conn[c].with
  /\ conn[c].req.op = "postRecipes" /\ conn[d].req.op = "postRecipes"
  /\ conn[c].status = 200 /\ conn[d].status = 200
  /\ conn[c].user.userId = conn[d].user.userId
  /\ Get(conn[c].req.body, "id") # Get(conn[d].req.body, "id")

Holds(list, recipe) == \E i \in 1..Len(list) : list[i] = recipe

\* C4 as claimed: the requests race and the write of the later one wins, so
\* the change of the earlier one is not in the list
C4_LastWriteWins ==
  \A c, d \in Conns :
    ConcurrentPair(c, d) =>
      ~Holds(RecipesIn(sessions, conn[c].user.userId), conn[c].req.body)

\* C4 as amended: the two handlers do not interleave; the later one reads
\* the list the earlier one left, and both changes are in the list and in
\* the snapshot
C4_NoLostUpdate ==
  \A c, d \in Conns :
    ConcurrentPair(c, d) =>
      LET u == conn[c].user.userId IN
      /\ Holds(RecipesIn(sessions, u), conn[c].req.body)
      /\ Holds(RecipesIn(sessions, u), conn[d].req.body)
      /\ sessionsFile = Json(StringifySessions(sessions))

C4_Witness == \E c, d \in Conns : ConcurrentPair(c, d)

\* ------------------------------------------------------------------------
\* C5.  Whenever a store operation (user creation, lazy creation of a
\* session record, saving or deleting a recipe, replacing or clearing the
\* basket) has returned success, the file of the table equals the table;
\* so each file holds its table as the last operation that returned
\* success left it, and a restart yields exactly these tables.
\* ------------------------------------------------------------------------
SameSessions(a, b) ==
  /\ DOMAIN a = DOMAIN b
  /\ \A u \in DOMAIN a :
       /\ Get(a[u], "recipes") = Get(b[u], "recipes")
       /\ Get(a[u], "basket") = Get(b[u], "basket")

\* a request answered 200 that changed a table leaves file and table equal
SnapshotOnSuccess ==
  [][\A c \in Conns :
       (Handled(c) /\ conn'[c].status = 200) =>
         /\ conn'[c].req.op = "createUser"
              => usersFile' # Corrupt /\ JsonParse(usersFile') = users'
         /\ (\/ conn'[c].req.op \in SessionWrites
             \/ conn'[c].req.op \in SessionReads /\ sessions' # sessions)
              => sessionsFile' # Corrupt /\ SameSessions(JsonParse(sessionsFile'), sessions')]_vars

\* a file that is readable holds the table of the last success
SnapshotIsLastSuccess ==
  /\ usersFile # Corrupt => JsonParse(usersFile) = good.users
  /\ sessionsFile # Corrupt => SameSessions(JsonParse(sessionsFile), good.sessions)

C5_SnapshotPersistence ==
  /\ SnapshotOnSuccess
  /\ []SnapshotIsLastSuccess
  /\ [][restarts' = restarts + 1 =>
          users' = good.users /\ SameSessions(sessions', good.sessions)]_vars

\* after a failed write and a restart the session table is the one the
\* last success left: the record of admin, created lazily, with a basket
\* that was saved
C5_Witness ==
  /\ restarts = 1
  /\ faults = 1
  /\ "admin" \in DOMAIN sessions
  /\ SameSessions(sessions, good.sessions)
  /\ Get(sessions["admin"], "basket") = Arr(<< Item("tea") >>)
  /\ touched = {}

\* ------------------------------------------------------------------------
\* C6.  A request whose write fails is not answered 200 and leaves both
\* tables as they were.
\* ------------------------------------------------------------------------
C6_AllOrNothing ==
  [][\A c \in Conns :
       (Handled(c) /\ faults' > faults) =>
         /\ conn'[c].status # 200
         /\ users' = users
         /\ sessions' = sessions]_vars

\* ------------------------------------------------------------------------
\* C7.  Saving a recipe that has no id is answered 400 and leaves the
\* recipe list as it was.
\* ------------------------------------------------------------------------
C7_UpsertRequiresId ==
  [][\A c \in Conns :
       (/\ Handled(c)
        /\ conn'[c].req.op = "postRecipes"
        /\ conn'[c].ran
        /\ "id" \notin DOMAIN conn'[c].req.body) =>
         /\ conn'[c].status = 400
         /\ conn'[c].user.userId \in DOMAIN sessions
              => RecipesIn(sessions', conn'[c].user.userId)
                   = RecipesIn(sessions, conn'[c].user.userId)]_vars

\* ------------------------------------------------------------------------
\* C8.  A protected request whose Authorization header is absent or not of
\* the form `Bearer <token>` is answered 401 and does not reach the
\* handler; one whose token is not Valid is answered 403.
\* ------------------------------------------------------------------------
BearerForm(h) ==
  /\ h # Undef
  /\ Len(h.v) = 3
  /\ h.v[1] = Lit("Bearer")
  /\ h.v[2] = Sp
  /\ h.v[3] # Sp

C8_HeaderHandling ==
  [][\A c \in Conns :
       (Handled(c) /\ conn'[c].req.op \in ProtectedOps) =>
         LET h == conn'[c].req.header IN
         /\ ~BearerForm(h) => conn'[c].status = 401 /\ ~conn'[c].ran
         /\ (BearerForm(h) /\ \A tok \in TokensIn(h) : ~ValidAt(tok, now))
              => conn'[c].status = 403 /\ ~conn'[c].ran]_vars

\* ------------------------------------------------------------------------
\* C9.  A recipe or basket request of user u leaves the record of every
\* other user and the credential table as they were.
\* ------------------------------------------------------------------------
C9_PerUserIsolation ==
  [][\A c \in Conns :
       (Handled(c) /\ conn'[c].req.op \in SessionOps /\ conn'[c].ran) =>
         /\ users' = users
         /\ usersFile' = usersFile
         /\ \A v \in DOMAIN sessions \ {conn'[c].user.userId} :
              v \in DOMAIN sessions' /\ sessions'[v] = sessions[v]]_vars

\* thomas saved a recipe while admin had recipes and a record of his own
C9_Witness ==
  \E c \in Conns :
    /\ Done(c)
    /\ conn[c].req.op = "postRecipes"
    /\ conn[c].status = 200
    /\ conn[c].user.userId = "thomas"
    /\ "admin" \in DOMAIN sessions
    /\ Len(RecipesIn(sessions, "admin")) >= 1
    /\ Len(RecipesIn(sessions, "thomas")) >= 1

\* ------------------------------------------------------------------------
\* C10.  Saving a recipe under an id leaves one entry with that id, equal
\* to the recipe sent, and when the id was in the list the length of the
\* list stays; an id stays in the list until a delete of it.
\* ------------------------------------------------------------------------
CountId(list, id) == Cardinality({i \in 1..Len(list) : Get(list[i], "id") = id})

C10_UpsertUpdates ==
  [][/\ \A c \in Conns :
          (/\ Handled(c)
           /\ conn'[c].req.op = "postRecipes"
           /\ conn'[c].status = 200
           /\ "id" \in DOMAIN conn'[c].req.body) =>
            LET u == conn'[c].user.userId
                recipe == conn'[c].req.body
                old == IF u \in DOMAIN sessions THEN RecipesIn(sessions, u) ELSE << >>
                new == RecipesIn(sessions', u)
            IN /\ CountId(new, recipe.id) = 1
               /\ Holds(new, recipe)
               /\ recipe.id \in IdsOf(old) => Len(new) = Len(old)
     /\ \A u \in DOMAIN sessions :
          \A id \in IdsOf(RecipesIn(sessions, u)) :
            \/ u \in DOMAIN sessions' /\ id \in IdsOf(RecipesIn(sessions', u))
            \/ restarts' # restarts
            \/ \E c \in Conns :
                 /\ Handled(c)
                 /\ conn'[c].req.op = "deleteRecipe"
                 /\ conn'[c].req.param = id
                 /\ conn'[c].ran
                 /\ conn'[c].user.userId = u]_vars

\* "r1" was saved again, with the body "Stew", while it stood first of two
C10_Witness ==
  \E c \in Conns :
    /\ Done(c)
    /\ conn[c].req.op = "postRecipes"
    /\ conn[c].status = 200
    /\ conn[c].req.body = Recipe("r1", "Stew")
    /\ RecipesIn(sessions, conn[c].user.userId)
         = << Recipe("r1", "Stew"), Recipe("r2", "Soup") >>

\* ------------------------------------------------------------------------
\* C11.  A delete of a recipe id is answered 200 whether or not an entry
\* has the id (unless the write of the snapshot throws), and leaves the
\* caller's list as it was without the entries that have the id, the others
\* in their order; when no entry has the id the list is as it was, and no
\* entry with the id is left, so a second delete changes nothing.
\* ------------------------------------------------------------------------
KeptIndexes(list, id) == {i \in 1..Len(list) : Get(list[i], "id") # id}

NthKept(list, id, k) ==
  CHOOSE i \in KeptIndexes(list, id) :
    Cardinality({j \in KeptIndexes(list, id) : j <= i}) = k

Remaining(list, id) ==
  [k \in 1..Cardinality(KeptIndexes(list, id)) |-> list[NthKept(list, id, k)]]

C11_DeleteRecipe ==
  [][\A c \in Conns :
       (Handled(c) /\ conn'[c].req.op = "deleteRecipe" /\ conn'[c].ran) =>
         LET u == conn'[c].user.userId
             id == conn'[c].req.param
             old == IF u \in DOMAIN sessions THEN RecipesIn(sessions, u) ELSE << >>
             new == RecipesIn(sessions', u)
         IN /\ faults' = faults => conn'[c].status = 200
            /\ new = Remaining(old, id)
            /\ id \notin IdsOf(old) => new = old
            /\ id \notin IdsOf(new)
            /\ Remaining(new, id) = new]_vars

\* "r1" was saved and then deleted while "r2" was in the list, which is
\* left with "r2" alone
C11_Witness ==
  \E c, d \in Conns :
    /\ c # d
    /\ Done(c) /\ Done(d)
    /\ d \in conn[c].with
    /\ conn[c].req.op = "postRecipes" /\ conn[c].status = 200
    /\ conn[c].req.body = Recipe("r1", "Soup")
    /\ conn[d].req.op = "deleteRecipe" /\ conn[d].status = 200
    /\ conn[d].req.param = Str("r1")
    /\ conn[d].user.userId = conn[c].user.userId
    /\ RecipesIn(sessions, conn[d].user.userId) = << Recipe("r2", "Soup") >>

\* ------------------------------------------------------------------------
\* C12.  A login with the name of a user record, in any letter case, and
\* the password the record was made with is answered 200 with a token for
\* the lower-case id of the record; a login with that name and any other
\* password is answered 401 and signs no token.
\* ------------------------------------------------------------------------
\* the password of the record a login names was made with, for a login
\* whose name (a string) names a record
NamesRecord(body) ==
  /\ Truthy(Get(body, "username"))
  /\ Get(body, "username").t = "string"
  /\ ToLowerCase(body.username.v) \in DOMAIN users

RightPassword(body) ==
  Get(body, "password") = Str(good.passwords[ToLowerCase(body.username.v)])

\* the first half of C12
LoginSucceeds ==
  [][\A c \in Conns :
       (/\ Handled(c)
        /\ conn'[c].req.op = "login"
        /\ NamesRecord(conn'[c].req.body)
        /\ RightPassword(conn'[c].req.body)) =>
         LET id == ToLowerCase(conn'[c].req.body.username.v) IN
         /\ conn'[c].status = 200
         /\ conn'[c].body.token \in issued'
         /\ conn'[c].body.token.userId = id
         /\ conn'[c].body.user.id = id]_vars

C12_LoginCorrectness ==
  /\ LoginSucceeds
  /\ [][\A c \in Conns :
          (/\ Handled(c)
           /\ conn'[c].req.op = "login"
           /\ NamesRecord(conn'[c].req.body)
           /\ Truthy(Get(conn'[c].req.body, "password"))
           /\ ~RightPassword(conn'[c].req.body)) =>
            conn'[c].status = 401 /\ issued' = issued]_vars

\* ------------------------------------------------------------------------
\* C13.  A login with a name that no record has and a login with the name
\* of a record and a password that is not the record's get the same
\* response: 401 with the one message, so the response does not tell
\* whether the name exists.
\* ------------------------------------------------------------------------
InvalidCredentials(c) ==
  conn'[c].status = 401 /\ conn'[c].body = [error |-> "Invalid credentials"]

C13_LoginIndistinguishable ==
  [][\A c \in Conns :
       (/\ Handled(c)
        /\ conn'[c].req.op = "login"
        /\ Truthy(Get(conn'[c].req.body, "username"))
        /\ Get(conn'[c].req.body, "username").t = "string"
        /\ Truthy(Get(conn'[c].req.body, "password"))) =>
         /\ ~NamesRecord(conn'[c].req.body) => InvalidCredentials(c)
         /\ (NamesRecord(conn'[c].req.body) /\ ~RightPassword(conn'[c].req.body))
              => InvalidCredentials(c)]_vars

\* ------------------------------------------------------------------------
\* C14.  Creating a user without username or password is refused as
\* invalid input, and with a name whose lower case is the key of a record
\* as a conflict, the credential table and its file staying as they were;
\* every other creation adds one record under the lower-case name, with
\* that name as its id, and changes no other record.
\* ------------------------------------------------------------------------
Refused(c, message) ==
  /\ conn'[c].status = 400
  /\ conn'[c].body = [error |-> message]
  /\ users' = users
  /\ usersFile' = usersFile

C14_UserCreation ==
  [][\A c \in Conns :
       (Handled(c) /\ conn'[c].req.op = "createUser") =>
         LET username == Get(conn'[c].req.body, "username")
             password == Get(conn'[c].req.body, "password")
         IN
         IF ~Truthy(username) \/ ~Truthy(password)
         THEN Refused(c, "Username and password required")
         ELSE username.t = "string" =>
                LET id == ToLowerCase(username.v) IN
                IF id \in DOMAIN users
                THEN Refused(c, "User already exists")
                ELSE /\ DOMAIN users' = DOMAIN users \cup {id}
                     /\ users'[id].id = id
                     /\ \A u \in DOMAIN users : users'[u] = users[u]]_vars

\* ------------------------------------------------------------------------
\* C15.  A user record, once in the credential table, stays in it with the
\* same id, password hash and name, whatever happens; the number of users
\* never goes down.
\* ------------------------------------------------------------------------
RecordsKept ==
  /\ \A u \in DOMAIN users : u \in DOMAIN users' /\ users'[u] = users[u]
  /\ Cardinality(DOMAIN users') >= Cardinality(DOMAIN users)

\* C15 for the requests alone: no handler changes or removes a record
HandlersKeepRecords == [][restarts' = restarts => RecordsKept]_vars

C15_UsersImmutable == [][RecordsKept]_vars

\* ------------------------------------------------------------------------
\* C16.  A request that presents a token the server signed, before the
\* token expires, passes the gate with the userId and username the token
\* was signed for, which are the id of the user who logged in; a request
\* that presents a token with a forged signature, or a signed token at or
\* after its expiry, is turned away with 403.
\* ------------------------------------------------------------------------
C16_IssueVerify ==
  [][/\ \A c \in Conns :
          (Handled(c) /\ conn'[c].req.op = "login" /\ conn'[c].status = 200) =>
            LET tok == conn'[c].body.token IN
            /\ tok.userId = conn'[c].body.user.id
            /\ tok.username = conn'[c].body.user.id
            /\ tok.exp = now + TokenTTL
            /\ JwtVerify(<< Jwt(tok) >>, JWT_SECRET, now)
                 = [err |-> FALSE,
                    user |-> [userId |-> tok.userId, username |-> tok.username,
                              iat |-> tok.iat, exp |-> tok.exp]]
     /\ \A c \in Conns :
          (Handled(c) /\ conn'[c].req.op \in ProtectedOps) =>
            \A tok \in issued \cup {ForgedToken} :
              conn'[c].req.header = Bearer(tok) =>
                IF tok \in issued /\ now < tok.exp
                THEN /\ conn'[c].ran
                     /\ conn'[c].user.userId = tok.userId
                     /\ conn'[c].user.username = tok.username
                ELSE /\ ~conn'[c].ran
                     /\ conn'[c].status = 403
                     /\ conn'[c].body = [error |-> "Invalid or expired token"]]_vars

\* on the last day before the token of admin expires a verify request with
\* it is answered with admin
C16_Witness ==
  \E c \in Conns, tok \in issued :
    /\ Done(c)
    /\ conn[c].req.op = "verify"
    /\ conn[c].req.header = Bearer(tok)
    /\ now = tok.exp - 1
    /\ conn[c].status = 200
    /\ conn[c].user.userId = "admin"
    /\ conn[c].body.user.id = "admin"

\* ------------------------------------------------------------------------
\* C17.  A token the server signed is accepted by the gate from the instant
\* it was signed until 7 days later and turned away from then on.  A token
\* that is accepted stops being accepted only in a step of the clock, which
\* reaches its expiry: no request (login, user creation, recipes, basket)
\* and no restart does it; a token that is not accepted is never accepted
\* again.
\* ------------------------------------------------------------------------
Accepts(tok, t) == authenticateToken(Bearer(tok), t).status = 0

C17_TokenLifecycle ==
  /\ [](\A tok \in issued :
          /\ tok.iat <= now
          /\ tok.exp = tok.iat + 7
          /\ Accepts(tok, now) <=> now < tok.iat + 7)
  /\ [][\A tok \in issued :
          /\ (Accepts(tok, now) /\ ~Accepts(tok, now'))
               => /\ now' > now
                  /\ now' >= tok.exp
                  /\ << users, sessions, conn >>' = << users, sessions, conn >>
          /\ ~Accepts(tok, now) => ~Accepts(tok, now')]_vars

\* the token of admin, used for requests while it was accepted, is turned
\* away at the instant of its expiry
C17_Witness ==
  \E c \in Conns, tok \in issued :
    /\ now = tok.exp
    /\ ~Accepts(tok, now)
    /\ tok.userId \in DOMAIN sessions
    /\ Done(c)
    /\ conn[c].req.op = "verify"
    /\ conn[c].req.header = Bearer(tok)
    /\ conn[c].status = 403

\* ------------------------------------------------------------------------
\* C18.  A basket update that sends a list of items leaves the caller's
\* basket equal to that list, whatever it held before; a request for the
\* basket answers with the basket held and changes nothing; clearing the
\* basket leaves the empty list; neither changes the caller's recipes.
\* ------------------------------------------------------------------------
\* the record of user u before the handler created or changed it
Before(u) ==
  IF u \in DOMAIN sessions THEN sessions[u]
  ELSE [recipes |-> Arr(<< >>), basket |-> Arr(<< >>)]

IsList(x) == x # Undef /\ x.t = "array"

C18_BasketReplace ==
  [][\A c \in Conns :
       (Handled(c) /\ conn'[c].status = 200) =>
         LET u == conn'[c].user.userId
             op == conn'[c].req.op
         IN
         /\ (op = "postBasket" /\ IsList(Get(conn'[c].req.body, "basket")))
              => /\ Get(sessions'[u], "basket") = conn'[c].req.body.basket
                 /\ Get(sessions'[u], "recipes") = Get(Before(u), "recipes")
         /\ op = "deleteBasket"
              => /\ Get(sessions'[u], "basket") = Arr(<< >>)
                 /\ Get(sessions'[u], "recipes") = Get(Before(u), "recipes")
         /\ op = "getBasket"
              => /\ conn'[c].body = Get(Before(u), "basket")
                 /\ sessions'[u] = Before(u)]_vars

\* a basket of one item was put in the place of what the basket held, and
\* the recipe of the user is still there
C18_Witness ==
  \E c \in Conns :
    /\ Done(c)
    /\ conn[c].req.op = "postBasket"
    /\ conn[c].status = 200
    /\ conn[c].req.body = [basket |-> Arr(<< Item("tea") >>)]
    /\ Get(sessions[conn[c].user.userId], "basket") = Arr(<< Item("tea") >>)
    /\ RecipesIn(sessions, conn[c].user.userId) = << Recipe("r1", "Soup") >>

\* ------------------------------------------------------------------------
\* C19.  In every state every session record has a recipes field and a
\* basket field that are lists, also after basket updates whose body has no
\* basket field or a basket that is no list; so a request for the basket or
\* the recipes is answered with a list.
\* ------------------------------------------------------------------------
C19_SessionShape ==
  /\ \A u \in DOMAIN sessions :
       /\ IsList(Get(sessions[u], "recipes"))
       /\ IsList(Get(sessions[u], "basket"))
  /\ \A c \in Conns :
       (Done(c) /\ conn[c].req.op \in SessionReads /\ conn[c].status = 200)
         => IsList(conn[c].body)

\* ------------------------------------------------------------------------
\* C20.  In every state, restarts included, every token the server signed
\* that has not expired names a user of the credential table, and a verify
\* request that passed the gate is answered 200 with the id and name of
\* that user.
\* ------------------------------------------------------------------------
C20_TokensNameUsers ==
  /\ \A tok \in issued : ValidAt(tok, now) => tok.userId \in DOMAIN users
  /\ \A c \in Conns :
       (Done(c) /\ conn[c].req.op = "verify" /\ conn[c].ran) =>
         /\ conn[c].status = 200
         /\ conn[c].body.user.id = conn[c].user.userId

====
